---- MODULE Spec2Model ----
(***************************************************************************)
(* Plannerly budget engine (allocateBudget, spentAmount, reallocateBudget, *)
(* getOverageWarnings) as a state machine over the caller's data: the      *)
(* total budget, the event type, the selected vendors and the allocation   *)
(* the caller currently holds.  With it: the conversation flow             *)
(* (getNextState), the template-driven recommendations                     *)
(* (getBudgetRecommendations), the priority-driven recommender            *)
(* (generateBudgetRecommendations) and the vendor search with its cache    *)
(* (searchVendors).                                                        *)
(*                                                                         *)
(* TypeScript numbers are IEEE-754 doubles.  The engine multiplies and     *)
(* divides them before Math.round, so the products and quotients are       *)
(* modelled as correctly rounded 53-bit values (round to nearest, ties to  *)
(* even) over arbitrary-size naturals kept as little-endian limbs.         *)
(***************************************************************************)
EXTENDS Integers, Sequences, FiniteSets

----------------------------------------------------------------------------
(* Arbitrary-size naturals: little-endian sequences of limbs in 0..Base-1. *)

Base == 2^15

Half == 2^14

Mantissa == 53

RECURSIVE BigStrip(_)
BigStrip(x) ==
    IF x = <<>> THEN <<>>
    ELSE IF x[Len(x)] = 0 THEN BigStrip(SubSeq(x, 1, Len(x) - 1))
    ELSE x

BigOfInt(n) == IF n = 0 THEN <<>> ELSE <<n>>

RECURSIVE BigToInt(_)
BigToInt(x) == IF x = <<>> THEN 0 ELSE x[1] + Base * BigToInt(Tail(x))

\* x * k for 0 <= k <= Base, with an incoming carry
RECURSIVE BigMulCarry(_, _, _)
BigMulCarry(x, k, carry) ==
    IF x = <<>> THEN (IF carry = 0 THEN <<>> ELSE <<carry>>)
    ELSE LET t == x[1] * k + carry
         IN  <<t % Base>> \o BigMulCarry(Tail(x), k, t \div Base)

BigMul(x, k) == BigStrip(BigMulCarry(x, k, 0))

\* x + 1
RECURSIVE BigSucc(_)
BigSucc(x) ==
    IF x = <<>> THEN <<1>>
    ELSE IF x[1] + 1 < Base THEN <<x[1] + 1>> \o Tail(x)
    ELSE <<0>> \o BigSucc(Tail(x))

\* x \div d and x % d for 0 < d < Base, from the most significant limb down
RECURSIVE BigDivFrom(_, _, _, _)
BigDivFrom(x, d, i, rem) ==
    IF i = 0 THEN [q |-> <<>>, r |-> rem]
    ELSE LET t    == rem * Base + x[i]
             rest == BigDivFrom(x, d, i - 1, t % d)
         IN  [q |-> rest.q \o <<t \div d>>, r |-> rest.r]

BigDiv(x, d) ==
    LET res == BigDivFrom(x, d, Len(x), 0)
    IN  [q |-> BigStrip(res.q), r |-> res.r]

BitLenOfLimb(l) == IF l = 0 THEN 0 ELSE CHOOSE k \in 1..15 : 2^(k-1) <= l /\ l < 2^k

BigBitLen(x) ==
    LET s == BigStrip(x)
    IN  IF s = <<>> THEN 0 ELSE 15 * (Len(s) - 1) + BitLenOfLimb(s[Len(s)])

\* x shifted right by n >= 1 bits: the quotient, how the bits shifted out
\* compare with one half ("lt", "eq", "gt") of the last bit kept, and whether
\* they are all zero
BigShr(x, n) ==
    LET pad   == (15 - (n % 15)) % 15
        y     == BigMulCarry(x, 2^pad, 0)
        drop  == (n + pad) \div 15
        limb(i) == IF i <= Len(y) THEN y[i] ELSE 0
        top   == limb(drop)
        low   == \E i \in 1..(drop - 1) : limb(i) # 0
        q     == IF drop >= Len(y) THEN <<>> ELSE BigStrip(SubSeq(y, drop + 1, Len(y)))
    IN  [q    |-> q,
         half |-> IF top > Half \/ (top = Half /\ low) THEN "gt"
                  ELSE IF top = Half THEN "eq"
                  ELSE "lt",
         exact |-> top = 0 /\ ~low]

----------------------------------------------------------------------------
(* Doubles: [neg, m, e] is (-1)^neg * m * 2^e with m a natural of at most  *)
(* 54 bits.  The exponents met here stay far inside the normal range.      *)

\* the double nearest to (big + sticky fraction) * 2^e, ties to even
RoundToDouble(neg, big, e, sticky) ==
    LET len == BigBitLen(big)
    IN  IF len <= Mantissa THEN [neg |-> neg, m |-> BigStrip(big), e |-> e]
        ELSE LET n   == len - Mantissa
                 s   == BigShr(big, n)
                 odd == s.q # <<>> /\ s.q[1] % 2 = 1
                 up  == \/ s.half = "gt"
                        \/ s.half = "eq" /\ (sticky \/ odd)
             IN  [neg |-> neg, m |-> IF up THEN BigSucc(s.q) ELSE s.q, e |-> e + n]

Abs(n) == IF n < 0 THEN -n ELSE n

\* the double of an integer (exact below 2^53)
DoubleOfInt(n) == [neg |-> n < 0, m |-> BigOfInt(Abs(n)), e |-> 0]

\* a / b in double arithmetic, for integers a and b > 0
DoubleDiv(a, b) ==
    LET num == <<0, 0, 0, 0, 0>> \o BigOfInt(Abs(a))
        d   == BigDiv(num, b)
    IN  IF a = 0 THEN DoubleOfInt(0)
        ELSE RoundToDouble(a < 0, d.q, -75, d.r # 0)

\* x * k in double arithmetic, for a double x and an integer k
DoubleMul(x, k) ==
    IF k = 0 \/ x.m = <<>> THEN DoubleOfInt(0)
    ELSE RoundToDouble(x.neg # (k < 0), BigMul(x.m, Abs(k)), x.e, FALSE)

\* mutant: a tie goes to the even neighbour
MathRoundHalfEven(x) ==
    IF x.m = <<>> THEN 0
    ELSE IF x.e >= 0 THEN (IF x.neg THEN -1 ELSE 1) * BigToInt(x.m) * 2^(x.e)
    ELSE LET s  == BigShr(x.m, -(x.e))
             i  == BigToInt(s.q)
             up == s.half = "gt" \/ (s.half = "eq" /\ i % 2 = 1)
         IN  (IF x.neg THEN -1 ELSE 1) * (i + (IF up THEN 1 ELSE 0))

\* mutant: Math.floor in place of Math.round
MathFloor(x) ==
    IF x.m = <<>> THEN 0
    ELSE IF x.e >= 0 THEN (IF x.neg THEN -1 ELSE 1) * BigToInt(x.m) * 2^(x.e)
    ELSE LET s == BigShr(x.m, -(x.e))
             i == BigToInt(s.q)
         IN  IF x.neg
             THEN -(i + (IF s.exact THEN 0 ELSE 1))
             ELSE i

\* mutant: Math.ceil in place of Math.round
MathCeil(x) == -MathFloor([x EXCEPT !.neg = ~@])

\* Math.round: the nearest integer, a tie going towards +Infinity
MathRound(x) ==
    IF x.m = <<>> THEN 0
    ELSE IF x.e >= 0 THEN (IF x.neg THEN -1 ELSE 1) * BigToInt(x.m) * 2^(x.e)
    ELSE LET s == BigShr(x.m, -(x.e))
             i == BigToInt(s.q)
         IN  IF x.neg
             THEN -(i + (IF s.half = "gt" THEN 1 ELSE 0))
             ELSE i + (IF s.half \in {"eq", "gt"} THEN 1 ELSE 0)

----------------------------------------------------------------------------
(* Arithmetic between doubles, with the values a division by zero yields:  *)
(* NaN and the two infinities.  A zero's sign is not kept: the budget      *)
(* functions only compare their quotients and products.                    *)

\* -1, 0 or 1 as x is below, equal to or above y (both without leading zeros)
RECURSIVE BigCmpFrom(_, _, _)
BigCmpFrom(x, y, i) ==
    IF i = 0 THEN 0
    ELSE IF x[i] < y[i] THEN -1
    ELSE IF x[i] > y[i] THEN 1
    ELSE BigCmpFrom(x, y, i - 1)

BigCmp(x, y) ==
    IF Len(x) < Len(y) THEN -1
    ELSE IF Len(x) > Len(y) THEN 1
    ELSE BigCmpFrom(x, y, Len(x))

\* x + y with an incoming carry
RECURSIVE BigAddCarry(_, _, _)
BigAddCarry(x, y, carry) ==
    IF x = <<>> /\ y = <<>> THEN (IF carry = 0 THEN <<>> ELSE <<carry>>)
    ELSE LET a == IF x = <<>> THEN 0 ELSE x[1]
             b == IF y = <<>> THEN 0 ELSE y[1]
             t == a + b + carry
         IN  <<t % Base>> \o BigAddCarry(IF x = <<>> THEN <<>> ELSE Tail(x),
                                         IF y = <<>> THEN <<>> ELSE Tail(y),
                                         t \div Base)

BigAdd(x, y) == BigStrip(BigAddCarry(x, y, 0))

\* x - y for x >= y, with an incoming borrow
RECURSIVE BigSubBorrow(_, _, _)
BigSubBorrow(x, y, borrow) ==
    IF x = <<>> THEN <<>>
    ELSE LET b == IF y = <<>> THEN 0 ELSE y[1]
             t == x[1] - b - borrow
         IN  <<t % Base>> \o BigSubBorrow(Tail(x),
                                          IF y = <<>> THEN <<>> ELSE Tail(y),
                                          IF t < 0 THEN 1 ELSE 0)

BigSub(x, y) == BigStrip(BigSubBorrow(x, y, 0))

\* x * 2^n
BigShl(x, n) ==
    IF x = <<>> THEN <<>>
    ELSE [i \in 1..(n \div 15) |-> 0] \o BigMul(x, 2^(n % 15))

\* x * y, limb by limb of y
RECURSIVE BigTimes(_, _)
BigTimes(x, y) ==
    IF y = <<>> \/ x = <<>> THEN <<>>
    ELSE BigAdd(BigMul(x, y[1]), BigShl(BigTimes(x, Tail(y)), 15))

\* one more limb of the quotient rem / den, for rem < den and den with the
\* top bit of its top limb set: the limb and what is left.  The limb is at
\* most 2 below the quotient of the leading limbs.
QuotLimb(rem, den) ==
    LET n       == Len(den)
        num     == IF rem = <<>> THEN <<>> ELSE <<0>> \o rem
        limb(i) == IF i <= Len(num) THEN num[i] ELSE 0
        top     == limb(n + 1) * Base + limb(n)
        guess   == IF top \div den[n] >= Base THEN Base - 1 ELSE top \div den[n]
        t       == CHOOSE c \in (guess - 2)..guess :
                       /\ c >= 0
                       /\ BigCmp(BigMul(den, c), num) <= 0
                       /\ BigCmp(BigMul(den, c + 1), num) > 0
    IN  [t |-> t, r |-> BigSub(num, BigMul(den, t))]

\* bits of the quotient developed: four limbs, more than a significand holds
QuotientBits == 4 * 15

NaN == [nan |-> TRUE]

Infinity(neg) == [inf |-> TRUE, neg |-> neg]

IsNaN(x) == "nan" \in DOMAIN x

IsInfinite(x) == "inf" \in DOMAIN x

IsZero(x) == ~IsNaN(x) /\ ~IsInfinite(x) /\ x.m = <<>>

\* x / y
Divide(x, y) ==
    IF IsNaN(x) \/ IsNaN(y) THEN NaN
    ELSE IF IsInfinite(x) THEN (IF IsInfinite(y) THEN NaN ELSE Infinity(x.neg # y.neg))
    ELSE IF IsInfinite(y) THEN DoubleOfInt(0)
    ELSE IF IsZero(y) THEN (IF IsZero(x) THEN NaN ELSE Infinity(x.neg))
    ELSE IF IsZero(x) THEN DoubleOfInt(0)
    ELSE LET lx   == BigBitLen(x.m)
             ly   == BigBitLen(y.m)
             n    == ((IF ly > lx + 1 THEN ly ELSE lx + 1) + 14) \div 15
             den  == BigShl(y.m, 15 * n - ly)
             num  == BigShl(x.m, 15 * n - 1 - lx)
             d1   == QuotLimb(num, den)
             d2   == QuotLimb(d1.r, den)
             d3   == QuotLimb(d2.r, den)
             d4   == QuotLimb(d3.r, den)
         IN  RoundToDouble(x.neg # y.neg, BigStrip(<<d4.t, d3.t, d2.t, d1.t>>),
                           x.e - y.e + lx - ly + 1 - QuotientBits, d4.r # <<>>)

\* x * y
Times(x, y) ==
    IF IsNaN(x) \/ IsNaN(y) THEN NaN
    ELSE IF IsInfinite(x) \/ IsInfinite(y)
         THEN (IF IsZero(x) \/ IsZero(y) THEN NaN ELSE Infinity(x.neg # y.neg))
    ELSE IF IsZero(x) \/ IsZero(y) THEN DoubleOfInt(0)
    ELSE RoundToDouble(x.neg # y.neg, BigTimes(x.m, y.m), x.e + y.e, FALSE)

\* x < y; false as soon as one of them is NaN
Less(x, y) ==
    IF IsNaN(x) \/ IsNaN(y) THEN FALSE
    ELSE IF IsInfinite(x) THEN x.neg /\ ~(IsInfinite(y) /\ y.neg)
    ELSE IF IsInfinite(y) THEN ~y.neg
    ELSE IF IsZero(x) THEN ~IsZero(y) /\ ~y.neg
    ELSE IF IsZero(y) THEN x.neg
    ELSE IF x.neg # y.neg THEN x.neg
    ELSE LET e   == IF x.e < y.e THEN x.e ELSE y.e
             cmp == BigCmp(BigShl(x.m, x.e - e), BigShl(y.m, y.e - e))
         IN  IF x.neg THEN cmp > 0 ELSE cmp < 0

----------------------------------------------------------------------------
(* Conversation flow.                                                      *)

ConversationState ==
    {"INITIAL", "EVENT_TYPE", "SCOPE", "BUDGET", "LOCATION", "DATE", "STYLE",
     "PLANNING"}

\* mutant: the flow skips STYLE
orderedStatesShort ==
    <<"EVENT_TYPE", "SCOPE", "BUDGET", "LOCATION", "DATE", "PLANNING">>

orderedStates ==
    <<"EVENT_TYPE", "SCOPE", "BUDGET", "LOCATION", "DATE", "STYLE", "PLANNING">>

\* orderedStates.indexOf(current), counted from 0; -1 when absent
IndexOf(states, current) ==
    IF \E i \in 1..Len(states) : states[i] = current
    THEN (CHOOSE i \in 1..Len(states) :
              /\ states[i] = current
              /\ \A j \in 1..(i - 1) : states[j] # current) - 1
    ELSE -1

\* mutant: a state outside the sequence is sent to the first question
getNextStateFromStart(current) ==
    LET idx == IndexOf(orderedStates, current)
    IN  IF idx = Len(orderedStates) - 1 THEN "PLANNING"
        ELSE orderedStates[idx + 2]

\* mutant: the flow starts over after its last state
getNextStateWrapping(current) ==
    LET idx == IndexOf(orderedStates, current)
    IN  IF idx < 0 THEN "PLANNING"
        ELSE orderedStates[((idx + 1) % Len(orderedStates)) + 1]

\* mutant: a state of the sequence is followed by itself
getNextStateRepeating(current) ==
    LET idx == IndexOf(orderedStates, current)
    IN  IF idx < 0 \/ idx = Len(orderedStates) - 1 THEN "PLANNING"
        ELSE orderedStates[idx + 1]

getNextState(current) ==
    LET idx == IndexOf(orderedStates, current)
    IN  IF idx < 0 \/ idx = Len(orderedStates) - 1 THEN "PLANNING"
        ELSE orderedStates[idx + 2]

----------------------------------------------------------------------------
(* Budget data.  A BudgetAllocation is a function from the categories it   *)
(* holds to whole amounts; a VendorSelection is a record with a category   *)
(* and, when the vendor is priced, a price.  Amounts are whole dollars.    *)

EmptyAllocation == [c \in {} |-> 0]

\* allocation[category] ?? 0
Get(allocation, category) ==
    IF category \in DOMAIN allocation THEN allocation[category] ELSE 0

\* allocation[category] = amount
Put(allocation, category, amount) ==
    [c \in DOMAIN allocation \cup {category} |->
        IF c = category THEN amount ELSE allocation[c]]

HasPrice(vendor) == "price" \in DOMAIN vendor

\* vendor.price ?? 0
PriceOrZero(vendor) == IF HasPrice(vendor) THEN vendor.price ELSE 0

\* mutant: the wedding template gives music 0.08
templatesMistyped ==
    [wedding  |-> [venue |-> 30, catering |-> 25, photography |-> 12,
                   flowers |-> 8, music |-> 8, misc |-> 18],
     birthday |-> [venue |-> 20, catering |-> 30, entertainment |-> 20,
                   decor |-> 10, misc |-> 20]]

\* Default allocation templates by event type, in hundredths
templates ==
    [wedding  |-> [venue |-> 30, catering |-> 25, photography |-> 12,
                   flowers |-> 8, music |-> 7, misc |-> 18],
     birthday |-> [venue |-> 20, catering |-> 30, entertainment |-> 20,
                   decor |-> 10, misc |-> 20]]

\* the double a template literal such as 0.07 denotes: the one nearest 7/100
Fraction == [hundredths \in 0..100 |-> DoubleDiv(hundredths, 100)]

\* mutant: an unknown event type falls back to the wedding template
TemplateOrWedding(eventType) ==
    IF eventType \in DOMAIN templates THEN templates[eventType] ELSE templates["wedding"]

\* templates[eventType] || {}
TemplateOf(eventType) ==
    IF eventType \in DOMAIN templates THEN templates[eventType] ELSE EmptyAllocation

allocateBudget(budget, type) ==
    LET template == TemplateOf(type)
    IN  [category \in DOMAIN template |->
            MathRound(DoubleMul(Fraction[template[category]], budget))]

\* mutant: a vendor without a category is not counted
RECURSIVE spentWithCategory(_)
spentWithCategory(vendors) ==
    IF vendors = <<>> THEN 0
    ELSE (IF Head(vendors).category # "" THEN PriceOrZero(Head(vendors)) ELSE 0)
         + spentWithCategory(Tail(vendors))

RECURSIVE spentAmount(_)
spentAmount(vendors) ==
    IF vendors = <<>> THEN 0
    ELSE PriceOrZero(Head(vendors)) + spentAmount(Tail(vendors))

\* mutant: only the categories the allocation already holds are charged
RECURSIVE SubtractSpentHeld(_, _)
SubtractSpentHeld(allocations, vendors) ==
    IF vendors = <<>> THEN allocations
    ELSE LET vendor == Head(vendors)
             next   == IF vendor.category \in DOMAIN allocations /\ HasPrice(vendor)
                       THEN Put(allocations, vendor.category,
                                allocations[vendor.category] - vendor.price)
                       ELSE allocations
         IN  SubtractSpentHeld(next, Tail(vendors))

\* mutant: the prices are not subtracted
SubtractNothing(allocations, vendors) == allocations

\* subtract spent from their categories
RECURSIVE SubtractSpent(_, _)
SubtractSpent(allocations, vendors) ==
    IF vendors = <<>> THEN allocations
    ELSE LET vendor == Head(vendors)
             next   == IF vendor.category # "" /\ HasPrice(vendor)
                       THEN Put(allocations, vendor.category,
                                Get(allocations, vendor.category) - vendor.price)
                       ELSE allocations
         IN  SubtractSpent(next, Tail(vendors))

\* mutant: every category counts as remaining
EveryCategory(allocations) == DOMAIN allocations

RemainingCategories(allocations) == {c \in DOMAIN allocations : allocations[c] > 0}

RECURSIVE SumOver(_, _)
SumOver(allocations, categories) ==
    IF categories = {} THEN 0
    ELSE LET c == CHOOSE x \in categories : TRUE
         IN  allocations[c] + SumOver(allocations, categories \ {c})

\* mutant: the share is cut off instead of rounded
PortionTruncated(amount, remainingBudget, available) ==
    (amount * available) \div remainingBudget

\* Math.round(newAllocations[category] / remainingBudget * (totalBudget - spent))
Portion(amount, remainingBudget, available) ==
    MathRound(DoubleMul(DoubleDiv(amount, remainingBudget), available))

\* mutant: redistributes although nothing is available
reallocateUnchecked(allocations, vendors, budget) ==
    LET newAllocations      == SubtractSpent(allocations, vendors)
        remainingCategories == RemainingCategories(newAllocations)
        remainingBudget     == SumOver(newAllocations, remainingCategories)
        spent               == spentAmount(vendors)
    IN  IF remainingBudget > 0
        THEN [c \in DOMAIN newAllocations |->
                 IF c \in remainingCategories
                 THEN Portion(newAllocations[c], remainingBudget, budget - spent)
                 ELSE newAllocations[c]]
        ELSE newAllocations

reallocateBudget(allocations, vendors, budget) ==
    LET newAllocations      == SubtractSpent(allocations, vendors)
        remainingCategories == RemainingCategories(newAllocations)
        remainingBudget     == SumOver(newAllocations, remainingCategories)
        spent               == spentAmount(vendors)
    IN  IF remainingBudget > 0 /\ (budget - spent) > 0
        THEN [c \in DOMAIN newAllocations |->
                 IF c \in remainingCategories
                 THEN Portion(newAllocations[c], remainingBudget, budget - spent)
                 ELSE newAllocations[c]]
        ELSE newAllocations

\* spentPerCategory: the categories in order of first appearance, and their sums
RECURSIVE SpentKeys(_)
SpentKeys(vendors) ==
    IF vendors = <<>> THEN <<>>
    ELSE LET before == SpentKeys(SubSeq(vendors, 1, Len(vendors) - 1))
             c      == vendors[Len(vendors)].category
         IN  IF \E i \in 1..Len(before) : before[i] = c THEN before
             ELSE Append(before, c)

RECURSIVE SpentPerCategory(_, _)
SpentPerCategory(vendors, category) ==
    IF vendors = <<>> THEN 0
    ELSE (IF Head(vendors).category = category THEN PriceOrZero(Head(vendors)) ELSE 0)
         + SpentPerCategory(Tail(vendors), category)

\* overBy.toFixed(2) of a whole amount: its digits, a point and two zeros
ToFixed2(amount) == [whole |-> amount, decimals |-> <<0, 0>>]

\* `${category} is over budget by $${overBy.toFixed(2)}`
Warning(category, overBy) == [category |-> category, overBy |-> ToFixed2(overBy)]

\* mutant: spending the whole allocation already warns
RECURSIVE WarningsForAtLeast(_, _, _)
WarningsForAtLeast(keys, allocation, vendors) ==
    IF keys = <<>> THEN <<>>
    ELSE LET category        == Head(keys)
             allocated       == Get(allocation, category)
             spentInCategory == SpentPerCategory(vendors, category)
             rest            == WarningsForAtLeast(Tail(keys), allocation, vendors)
         IN  IF spentInCategory >= allocated
             THEN <<Warning(category, spentInCategory - allocated)>> \o rest
             ELSE rest

RECURSIVE WarningsFor(_, _, _)
WarningsFor(keys, allocation, vendors) ==
    IF keys = <<>> THEN <<>>
    ELSE LET category        == Head(keys)
             allocated       == Get(allocation, category)
             spentInCategory == SpentPerCategory(vendors, category)
             rest            == WarningsFor(Tail(keys), allocation, vendors)
         IN  IF spentInCategory > allocated
             THEN <<Warning(category, spentInCategory - allocated)>> \o rest
             ELSE rest

getOverageWarnings(allocation, vendors) ==
    WarningsFor(SpentKeys(vendors), allocation, vendors)

----------------------------------------------------------------------------
(* Template-driven recommendations.  A recommendation is a record of its   *)
(* kind and, for the per-category advice, the category it names.           *)

\* the categories of each template in the order `for ... in` visits them
TemplateKeys ==
    [wedding  |-> <<"venue", "catering", "photography", "flowers", "music", "misc">>,
     birthday |-> <<"venue", "catering", "entertainment", "decor", "misc">>]

KeysOf(type) == IF type \in DOMAIN TemplateKeys THEN TemplateKeys[type] ELSE <<>>

\* `Consider investing more in ${category}.`
InvestMore(category) == [kind |-> "invest", category |-> category]

\* 'You are nearing your budget limit. ...'
NearingLimit == [kind |-> "nearing"]

\* 'You have room in your budget. ...'
RoomToSplurge == [kind |-> "room"]

\* allocated > 0 && spentInCategory / allocated < 0.5
UnderInvested(spentInCategory, allocated) ==
    /\ Less(DoubleOfInt(0), allocated)
    /\ Less(Divide(DoubleOfInt(spentInCategory), allocated), Fraction[50])

\* categories that are under-invested relative to the template
RECURSIVE InvestIn(_, _, _, _)
InvestIn(keys, template, budget, vendors) ==
    IF keys = <<>> THEN <<>>
    ELSE LET category        == Head(keys)
             allocated       == DoubleMul(Fraction[template[category]], budget)
             spentInCategory == SpentPerCategory(vendors, category)
             rest            == InvestIn(Tail(keys), template, budget, vendors)
         IN  IF UnderInvested(spentInCategory, allocated)
             THEN <<InvestMore(category)>> \o rest
             ELSE rest

\* mutant: a tenth of the budget left already counts as nearing the limit
SplurgeOrSaveAtMost(remaining, budget) ==
    IF ~Less(Fraction[10], Divide(DoubleOfInt(remaining), DoubleOfInt(budget)))
    THEN NearingLimit
    ELSE RoomToSplurge

\* mutant: dividing by a total budget of zero raises
SplurgeOrSaveRaising(remaining, budget) ==
    IF budget = 0 THEN [kind |-> "RangeError"]
    ELSE IF Less(Divide(DoubleOfInt(remaining), DoubleOfInt(budget)), Fraction[10])
    THEN NearingLimit
    ELSE RoomToSplurge

\* remaining / totalBudget < 0.1
SplurgeOrSave(remaining, budget) ==
    IF Less(Divide(DoubleOfInt(remaining), DoubleOfInt(budget)), Fraction[10])
    THEN NearingLimit
    ELSE RoomToSplurge

getBudgetRecommendations(budget, vendors, type) ==
    LET spent     == spentAmount(vendors)
        remaining == budget - spent
        template  == TemplateOf(type)
    IN  InvestIn(KeysOf(type), template, budget, vendors)
            \o <<SplurgeOrSave(remaining, budget)>>

----------------------------------------------------------------------------
(* Priority-driven recommender.  The user's categoryPriorities are kept as *)
(* the sequence of their entries, in the order the keys were inserted;     *)
(* every selection carries a price.                                        *)

\* what a template string shows for a missing array element
Undefined == "undefined"

\* Object.keys(categoryPriorities)
Keys(priorities) == [i \in 1..Len(priorities) |-> priorities[i].category]

\* categoryPriorities[category] || 0
PriorityOf(priorities, category) ==
    IF \E i \in 1..Len(priorities) : priorities[i].category = category
    THEN (CHOOSE entry \in {priorities[i] : i \in 1..Len(priorities)} :
              entry.category = category).priority
    ELSE 0

\* Object.values(categoryPriorities).reduce((a, b) => a + b, 0)
RECURSIVE SumOfPriorities(_)
SumOfPriorities(priorities) ==
    IF priorities = <<>> THEN 0
    ELSE Head(priorities).priority + SumOfPriorities(Tail(priorities))

\* mutant: the categories stay in the order of their keys
Unsorted(categories, priorities) == categories

\* categories.sort((a, b) => priority[b] - priority[a]): descending, and
\* stable, so the first of the categories of highest priority leads
RECURSIVE SortByPriority(_, _)
SortByPriority(categories, priorities) ==
    IF categories = <<>> THEN <<>>
    ELSE LET top == CHOOSE i \in 1..Len(categories) :
                      /\ \A j \in 1..Len(categories) :
                            PriorityOf(priorities, categories[j])
                                <= PriorityOf(priorities, categories[i])
                      /\ \A j \in 1..(i - 1) :
                            PriorityOf(priorities, categories[j])
                                < PriorityOf(priorities, categories[i])
             rest == [j \in 1..(Len(categories) - 1) |->
                         IF j < top THEN categories[j] ELSE categories[j + 1]]
         IN  <<categories[top]>> \o SortByPriority(rest, priorities)

\* spentByCategory[category] || 0
RECURSIVE SpentBy(_, _)
SpentBy(selections, category) ==
    IF selections = <<>> THEN 0
    ELSE (IF Head(selections).category = category THEN Head(selections).price ELSE 0)
         + SpentBy(Tail(selections), category)

\* Object.values(spentByCategory).reduce((sum, v) => sum + v, 0)
RECURSIVE TotalOf(_)
TotalOf(selections) ==
    IF selections = <<>> THEN 0
    ELSE Head(selections).price + TotalOf(Tail(selections))

\* `You are currently over budget by $${Math.abs(remaining).toFixed(0)}. ...`
OverBudget(remaining) == [kind |-> "over", amount |-> Abs(remaining)]

\* `You have $${remaining.toFixed(0)} remaining in your budget. ...`
BudgetLeft(remaining) == [kind |-> "left", amount |-> remaining]

\* `You still have room to enhance your ${category} ...`
Enhance(category) == [kind |-> "enhance", category |-> category]

\* `You are spending a lot on ${category}. ...`
Trim(category) == [kind |-> "trim", category |-> category]

\* `With budget left over, you could splurge on your top priority: ...`
Splurge(category) == [kind |-> "splurge", category |-> category]

\* `Since funds are tight, ... lower priority areas like ...`
Economize(category) == [kind |-> "economize", category |-> category]

\* the literal 1.2
SixFifths == DoubleDiv(12, 10)

\* priority > 0 && remaining > 0 && spent < 0.5 * priority * totalBudget
RoomToEnhance(spent, priority, remaining, budget) ==
    /\ priority > 0
    /\ remaining > 0
    /\ Less(DoubleOfInt(spent),
            Times(Times(Fraction[50], DoubleOfInt(priority)), DoubleOfInt(budget)))

\* spent > expectedAmount * 1.2, with expectedShare = priority / the sum of
\* the priorities and expectedAmount = expectedShare * totalBudget
SpendingALot(spent, priority, sum, budget) ==
    LET expectedShare  == Divide(DoubleOfInt(priority), DoubleOfInt(sum))
        expectedAmount == Times(expectedShare, DoubleOfInt(budget))
    IN  Less(Times(expectedAmount, SixFifths), DoubleOfInt(spent))

\* suggest adjustments based on spending vs. priority
RECURSIVE Adjustments(_, _, _, _, _)
Adjustments(categories, priorities, selections, remaining, budget) ==
    IF categories = <<>> THEN <<>>
    ELSE LET category == Head(categories)
             spent    == SpentBy(selections, category)
             priority == PriorityOf(priorities, category)
         IN  (IF RoomToEnhance(spent, priority, remaining, budget)
              THEN <<Enhance(category)>> ELSE <<>>)
             \o (IF SpendingALot(spent, priority, SumOfPriorities(priorities), budget)
                 THEN <<Trim(category)>> ELSE <<>>)
             \o Adjustments(Tail(categories), priorities, selections, remaining, budget)

generateBudgetRecommendations(selections, priorities, budget) ==
    LET totalSpent == TotalOf(selections)
        remaining  == budget - totalSpent
        categories == SortByPriority(Keys(priorities), priorities)
        at(i)      == IF i \in 1..Len(categories) THEN categories[i] ELSE Undefined
    IN  (IF remaining < 0 THEN <<OverBudget(remaining)>>
         ELSE IF remaining > 0 THEN <<BudgetLeft(remaining)>>
         ELSE <<>>)
        \o Adjustments(categories, priorities, selections, remaining, budget)
        \o (IF remaining > 0
            THEN <<Splurge(at(1))>>
            ELSE <<Economize(at(Len(categories)))>>)

----------------------------------------------------------------------------
(* The caller's data and the last call made on the engine.                 *)

VARIABLES
    totalBudget,          \* the event's total budget
    eventType,            \* the event's type
    selectedVendors,      \* the vendors selected so far
    currentAllocations,   \* the allocation the caller holds
    op,                   \* the last step: "init", "select" or the function called
    given,                \* the allocation passed to that call
    result,               \* what that call returned
    reallocations,        \* how many times the caller has reallocated
    conversation,         \* the step of the planning dialog
    startedAt,            \* the step the dialog was taken up at
    steps,                \* how many times the dialog has advanced
    categoryPriorities    \* the user's priorities: <<category, priority>> pairs

VARIABLES
    cache,                \* searchVendors' cache: key -> [data, timestamp]
    clock,                \* Date.now()
    pending,              \* the calls of searchVendors awaiting placesNearby
    fetches,              \* the results cached so far, with when and for what
    search,               \* the last step of a call of searchVendors
    apiKey,               \* whether a Google Maps API key is configured
    calls                 \* how many calls of searchVendors were made

\* the vendor search
places == <<cache, clock, pending, fetches, search, apiKey, calls>>

vars == <<totalBudget, eventType, selectedVendors, currentAllocations,
          op, given, result, reallocations,
          conversation, startedAt, steps, categoryPriorities, places>>

\* what the budget engine leaves alone
others == <<conversation, startedAt, steps, categoryPriorities, places>>

\* new Map(): no key cached
EmptyCache == [key \in {} |-> 0]

\* no search was made
NoSearch ==
    /\ cache = EmptyCache
    /\ clock = 0
    /\ pending = <<>>
    /\ fetches = {}
    /\ search = [step |-> "none"]
    /\ apiKey = FALSE
    /\ calls = 0

MaxBudget == 5

MaxAllocation == 3

MaxSelections == 2

MaxReallocations == 2

MaxTemplateBudget == 60

MaxHundreds == 10

EventTypes == {"wedding", "birthday", "unknown-type"}

\* vendors on offer: venue vendors without a price and with one, a vendor of
\* a category no allocation holds, and a priced vendor with an empty category
Vendors ==
    {[category |-> "venue"],
     [category |-> "venue", price |-> 1],
     [category |-> "venue", price |-> 3],
     [category |-> "cake", price |-> 3],
     [category |-> "", price |-> 1]}

Budgets == 0..MaxBudget

TemplateBudgets ==
    (-MaxTemplateBudget..MaxTemplateBudget)
        \cup {100 * k : k \in -MaxHundreds..MaxHundreds}

\* allocations the caller may start from
InitialAllocations ==
    {EmptyAllocation} \cup {[venue |-> a, catering |-> 2] : a \in 1..MaxAllocation}

NoResult == <<>>

\* the worked examples of the budget engine's documentation
Fixtures ==
    {[budget |-> 1000, type |-> "wedding", allocation |-> EmptyAllocation,
      vendors |-> <<[category |-> "venue", price |-> 500], [category |-> "catering"]>>],
     [budget |-> 1000, type |-> "wedding", allocation |-> [venue |-> 100],
      vendors |-> <<[category |-> "venue", price |-> 150]>>],
     [budget |-> 200, type |-> "unknown-type", allocation |-> [a |-> 100, b |-> 100],
      vendors |-> <<[category |-> "a", price |-> 50]>>]}

InitCall ==
    /\ op = "init"
    /\ given = EmptyAllocation
    /\ result = NoResult
    /\ reallocations = 0

\* the dialog has not begun and no priorities are set
InitOthers ==
    /\ conversation = "INITIAL"
    /\ startedAt = "INITIAL"
    /\ steps = 0
    /\ categoryPriorities = <<>>
    /\ NoSearch

Init ==
    /\ \/ /\ totalBudget \in Budgets
          /\ eventType \in {"birthday"}
          /\ currentAllocations \in InitialAllocations
          /\ selectedVendors = <<>>
       \/ \E f \in Fixtures :
            /\ totalBudget = f.budget
            /\ eventType = f.type
            /\ currentAllocations = f.allocation
            /\ selectedVendors = f.vendors
    /\ InitCall
    /\ InitOthers

InitTemplates ==
    /\ totalBudget \in TemplateBudgets
    /\ eventType \in EventTypes
    /\ currentAllocations = EmptyAllocation
    /\ selectedVendors = <<>>
    /\ InitCall
    /\ InitOthers

\* the user selects one more vendor
SelectVendor ==
    /\ Len(selectedVendors) < MaxSelections
    /\ \E vendor \in Vendors : selectedVendors' = Append(selectedVendors, vendor)
    /\ op' = "select"
    /\ given' = EmptyAllocation
    /\ result' = NoResult
    /\ UNCHANGED <<totalBudget, eventType, currentAllocations, reallocations>>
    /\ UNCHANGED others

\* allocations are derived fresh from the template and the total budget
AllocateBudget ==
    /\ op' = "allocateBudget"
    /\ given' = EmptyAllocation
    /\ result' = allocateBudget(totalBudget, eventType)
    /\ currentAllocations' = result'
    /\ UNCHANGED <<totalBudget, eventType, selectedVendors, reallocations>>
    /\ UNCHANGED others

SpentAmount ==
    /\ op' = "spentAmount"
    /\ given' = EmptyAllocation
    /\ result' = spentAmount(selectedVendors)
    /\ UNCHANGED <<totalBudget, eventType, selectedVendors, currentAllocations,
                   reallocations>>
    /\ UNCHANGED others

\* the caller reallocates from the allocation it holds and keeps the outcome
ReallocateBudget ==
    /\ reallocations < MaxReallocations
    /\ op' = "reallocateBudget"
    /\ given' = currentAllocations
    /\ result' = reallocateBudget(currentAllocations, selectedVendors, totalBudget)
    /\ currentAllocations' = result'
    /\ reallocations' = reallocations + 1
    /\ UNCHANGED <<totalBudget, eventType, selectedVendors>>
    /\ UNCHANGED others

GetOverageWarnings ==
    /\ op' = "getOverageWarnings"
    /\ given' = currentAllocations
    /\ result' = getOverageWarnings(currentAllocations, selectedVendors)
    /\ UNCHANGED <<totalBudget, eventType, selectedVendors, currentAllocations,
                   reallocations>>
    /\ UNCHANGED others

Next ==
    \/ SelectVendor
    \/ AllocateBudget
    \/ SpentAmount
    \/ ReallocateBudget
    \/ GetOverageWarnings

Spec == Init /\ [][Next]_vars

NextTemplates ==
    \/ AllocateBudget
    \/ ReallocateBudget

SpecTemplates == InitTemplates /\ [][NextTemplates]_vars

----------------------------------------------------------------------------
(* The planning dialog: it is taken up at some state and advanced.         *)

MaxSteps == 12

\* the budget data while the dialog runs
NoBudget ==
    /\ totalBudget = 0
    /\ eventType = "unknown-type"
    /\ selectedVendors = <<>>
    /\ currentAllocations = EmptyAllocation
    /\ categoryPriorities = <<>>
    /\ InitCall

\* a state the enumeration does not hold, as an untyped caller may pass
StartStates == ConversationState \cup {"SUMMARY"}

InitConversation ==
    /\ startedAt \in StartStates
    /\ conversation = startedAt
    /\ steps = 0
    /\ NoBudget
    /\ NoSearch

\* the dialog moves on: current = getNextState(current)
Advance ==
    /\ steps < MaxSteps
    /\ conversation' = getNextState(conversation)
    /\ steps' = steps + 1
    /\ op' = "getNextState"
    /\ given' = conversation
    /\ result' = conversation'
    /\ UNCHANGED <<totalBudget, eventType, selectedVendors, currentAllocations,
                   reallocations, startedAt, categoryPriorities, places>>

NextConversation == Advance

SpecConversation == InitConversation /\ [][NextConversation]_vars

----------------------------------------------------------------------------
(* What the claims speak of, stated over the arguments of the last call    *)
(* and independently of the operators above.                               *)

\* the selections of a category, and those of them that carry a price
SelectionsIn(c) ==
    {i \in 1..Len(selectedVendors) : selectedVendors[i].category = c}

PricedIn(c) == {i \in SelectionsIn(c) : "price" \in DOMAIN selectedVendors[i]}

Priced == {i \in 1..Len(selectedVendors) : "price" \in DOMAIN selectedVendors[i]}

RECURSIVE PriceSum(_)
PriceSum(indices) ==
    IF indices = {} THEN 0
    ELSE LET i == CHOOSE j \in indices : TRUE
         IN  selectedVendors[i].price + PriceSum(indices \ {i})

TotalSpent == PriceSum(Priced)

Available == totalBudget - TotalSpent

\* the category names in play; a selection with an empty category is in none
CategoryNames ==
    (DOMAIN given \cup {selectedVendors[i].category : i \in 1..Len(selectedVendors)})
        \ {""}

\* a category's amount after the priced selections were subtracted
AfterSubtraction(c) == Get(given, c) - PriceSum(PricedIn(c))

StillPositive == {c \in CategoryNames : AfterSubtraction(c) > 0}

RECURSIVE SumAfterSubtraction(_)
SumAfterSubtraction(categories) ==
    IF categories = {} THEN 0
    ELSE LET c == CHOOSE x \in categories : TRUE
         IN  AfterSubtraction(c) + SumAfterSubtraction(categories \ {c})

RemainingTotal == SumAfterSubtraction(StillPositive)

Redistributes == RemainingTotal > 0 /\ Available > 0

\* r is an integer nearest to num / den (den > 0)
Nearest(r, num, den) ==
    /\ 2 * den * r - den <= 2 * num
    /\ 2 * num <= 2 * den * r + den

Reallocated == op = "reallocateBudget"

\* C1: when reallocateBudget redistributes (R > 0 and A > 0), every category
\* that is strictly positive after the subtraction holds round(v / R * A),
\* with v its amount after subtraction and the same R and A for all.
C1_Redistribution ==
    (Reallocated /\ Redistributes) =>
        \A c \in StillPositive :
            /\ c \in DOMAIN result
            /\ Nearest(result[c], AfterSubtraction(c) * Available, RemainingTotal)

\* two categories share the available budget and one of them changes
C1_Witness ==
    /\ Reallocated /\ Redistributes
    /\ Cardinality(StillPositive) >= 2
    /\ \E c \in StillPositive : result[c] # AfterSubtraction(c)
    /\ Priced # {}

\* C2: when nothing is available (A <= 0) or no category is strictly
\* positive after the subtraction, the result is the allocation after
\* subtraction, no amount rescaled.
C2_Degenerate ==
    (Reallocated /\ ~Redistributes) =>
        /\ \A c \in CategoryNames \cup DOMAIN result :
              Get(result, c) = AfterSubtraction(c)
        /\ DOMAIN result \subseteq CategoryNames

\* the budget is used up while a category is still positive
C2_Witness ==
    /\ Reallocated
    /\ Available <= 0
    /\ StillPositive # {}
    /\ Priced # {}

\* nothing is positive although money is available
C2_WitnessDrained ==
    /\ Reallocated
    /\ Available > 0
    /\ StillPositive = {}
    /\ \E c \in CategoryNames : AfterSubtraction(c) < 0

\* C3: a category that is <= 0 after the subtraction keeps exactly that
\* amount, whether or not the others are redistributed.
C3_NonPositiveKept ==
    Reallocated =>
        \A c \in CategoryNames :
            AfterSubtraction(c) <= 0 => Get(result, c) = AfterSubtraction(c)

\* a redistribution that changes a positive category leaves a negative one alone
C3_Witness ==
    /\ Reallocated /\ Redistributes
    /\ \E c \in StillPositive : result[c] # AfterSubtraction(c)
    /\ \E c \in CategoryNames : AfterSubtraction(c) < 0 /\ c \in DOMAIN given

\* C4: a category with priced selections totalling p > 0 that the current
\* allocation does not hold is in the result with exactly -p.
C4_AbsentCategory ==
    Reallocated =>
        \A c \in CategoryNames :
            (c \notin DOMAIN given /\ PriceSum(PricedIn(c)) > 0) =>
                /\ c \in DOMAIN result
                /\ result[c] = -PriceSum(PricedIn(c))

\* the absent category goes negative while the others are redistributed
C4_Witness ==
    /\ Reallocated /\ Redistributes
    /\ \E c \in StillPositive : result[c] # AfterSubtraction(c)
    /\ \E c \in CategoryNames : c \notin DOMAIN given /\ PriceSum(PricedIn(c)) > 0

RECURSIVE Total(_)
Total(allocation) ==
    IF DOMAIN allocation = {} THEN 0
    ELSE LET c == CHOOSE x \in DOMAIN allocation : TRUE
         IN  allocation[c] + Total([k \in DOMAIN allocation \ {c} |-> allocation[k]])

Allocated == op = "allocateBudget"

BuiltIn == {"wedding", "birthday"}

\* the fresh allocation went through one reallocation with nothing selected
RoundTripped ==
    /\ Reallocated
    /\ selectedVendors = <<>>
    /\ given = allocateBudget(totalBudget, eventType)

\* C5 as stated: reallocating a fresh allocation with no selections returns
\* it unchanged, for every event type and every total budget.
C5_RoundTrip == RoundTripped => result = given

\* C5 amended: the fresh allocation comes back unchanged when its amounts
\* sum to the total budget, when the total budget is <= 0 or when the event
\* type has no template; otherwise the amounts are rescaled to the total
\* budget and a category may move, by at most 1.
C5_RoundTripAmended ==
    RoundTripped =>
        /\ (totalBudget <= 0 \/ eventType \notin BuiltIn \/ Total(given) = totalBudget)
              => result = given
        /\ DOMAIN result = DOMAIN given
        /\ \A c \in DOMAIN given : Abs(result[c] - given[c]) <= 1

\* an allocation that sums to a total budget that is no multiple of 100
C5_Witness ==
    /\ RoundTripped
    /\ eventType \in BuiltIn
    /\ totalBudget > 0 /\ totalBudget % 100 # 0
    /\ Total(given) = totalBudget
    /\ result = given

\* an allocation that does not sum to the total budget and is rescaled
C5_WitnessRescaled ==
    /\ RoundTripped
    /\ Total(given) # totalBudget
    /\ result # given

\* amount is fraction * budget rounded half up, the fraction in hundredths
HalfUp(amount, hundredths, budget) ==
    /\ 100 * (2 * amount - 1) <= 2 * hundredths * budget
    /\ 2 * hundredths * budget < 100 * (2 * amount + 1)

\* C6 as stated: for a known event type the result has exactly the
\* template's categories, each holding fraction * totalBudget rounded half up.
C6_AllocateFormula ==
    (Allocated /\ eventType \in DOMAIN templates) =>
        /\ DOMAIN result = DOMAIN templates[eventType]
        /\ \A c \in DOMAIN result :
              HalfUp(result[c], templates[eventType][c], totalBudget)

\* C6 amended: the same for a total budget >= 0; for a negative total
\* budget each amount is an integer nearest to fraction * totalBudget, and
\* at an exact tie it may be the one further from zero.
C6_AllocateFormulaAmended ==
    (Allocated /\ eventType \in DOMAIN templates) =>
        /\ DOMAIN result = DOMAIN templates[eventType]
        /\ \A c \in DOMAIN result :
              IF totalBudget >= 0
              THEN HalfUp(result[c], templates[eventType][c], totalBudget)
              ELSE Nearest(result[c], templates[eventType][c] * totalBudget, 100)

\* a tie is rounded up and the amounts are left summing to more than the total
C6_Witness ==
    /\ Allocated /\ eventType \in DOMAIN templates
    /\ totalBudget > 0
    /\ \E c \in DOMAIN result : (templates[eventType][c] * totalBudget) % 100 = 50
    /\ Total(result) > totalBudget

\* C7: allocate(1000, "wedding") is venue 300, catering 250, photography
\* 120, flowers 80, music 70, misc 180; for both built-in templates the
\* amounts of a total budget that is a multiple of 100 sum to it.
C7_SumsToBudget ==
    Allocated =>
        /\ (totalBudget = 1000 /\ eventType = "wedding") =>
              result = [venue |-> 300, catering |-> 250, photography |-> 120,
                        flowers |-> 80, music |-> 70, misc |-> 180]
        /\ (eventType \in BuiltIn /\ totalBudget % 100 = 0) =>
              Total(result) = totalBudget

C7_Witness ==
    /\ Allocated
    /\ totalBudget = 1000
    /\ eventType = "wedding"
    /\ Total(result) = 1000

\* C8: an event type without a template gets the empty allocation, for
\* every total budget.
C8_UnknownType ==
    (Allocated /\ eventType \notin BuiltIn) => DOMAIN result = {}

C8_Witness ==
    /\ Allocated
    /\ eventType = "unknown-type"
    /\ totalBudget = 1000
    /\ DOMAIN result = {}

\* C9: spentAmount is the sum of the prices of all selections, one without
\* a price counting 0: 0 for no selections, 500 for venue at 500 with an
\* unpriced catering.
C9_TotalSpent ==
    op = "spentAmount" =>
        /\ result = TotalSpent
        /\ selectedVendors = <<>> => result = 0
        /\ selectedVendors = <<[category |-> "venue", price |-> 500],
                               [category |-> "catering"]>> => result = 500

C9_Witness ==
    /\ op = "spentAmount"
    /\ selectedVendors = <<[category |-> "venue", price |-> 500],
                           [category |-> "catering"]>>
    /\ result = 500

Warned == op = "getOverageWarnings"

\* every key spend is aggregated under, the empty one included
SpendKeys == {selectedVendors[i].category : i \in 1..Len(selectedVendors)}

WarningsAbout(c) == {i \in 1..Len(result) : result[i].category = c}

\* C10: a category gets exactly one warning when the summed spend of its
\* selections exceeds its allocation (0 if absent), carrying the difference
\* with two decimals, and none otherwise: {venue: 100} with venue at 150
\* gives one warning, for venue, of 50.00.
C10_Overage ==
    Warned =>
        /\ \A i \in 1..Len(result) : result[i].category \in SpendKeys
        /\ \A c \in SpendKeys \cup DOMAIN given :
              IF PriceSum(PricedIn(c)) > Get(given, c)
              THEN /\ Cardinality(WarningsAbout(c)) = 1
                   /\ \A i \in WarningsAbout(c) :
                         result[i].overBy =
                             [whole    |-> PriceSum(PricedIn(c)) - Get(given, c),
                              decimals |-> <<0, 0>>]
              ELSE WarningsAbout(c) = {}
        /\ (given = [venue |-> 100]
              /\ selectedVendors = <<[category |-> "venue", price |-> 150]>>) =>
              result = <<[category |-> "venue",
                          overBy   |-> [whole |-> 50, decimals |-> <<0, 0>>]]>>

C10_Witness ==
    /\ Warned
    /\ given = [venue |-> 100]
    /\ selectedVendors = <<[category |-> "venue", price |-> 150]>>
    /\ Len(result) = 1

\* one category over its allocation, another within it
C10_WitnessMixed ==
    /\ Warned
    /\ \E c \in SpendKeys : PriceSum(PricedIn(c)) > Get(given, c)
    /\ \E c \in SpendKeys : PriceSum(PricedIn(c)) > 0 /\ PriceSum(PricedIn(c)) <= Get(given, c)

----------------------------------------------------------------------------
(* Recommendations from the templates: the user selects vendors and asks   *)
(* for advice.                                                             *)

MaxDeficit == 2

MaxTens == 3

RecommendationBudgets ==
    (-MaxDeficit..MaxBudget) \cup {10 * k : k \in 1..MaxTens}

\* a tenth of the budget left exactly; half of a category's share spent
\* exactly, with a share that is not a whole double (0.07 * 200)
RecommendationFixtures ==
    {[budget |-> 10, type |-> "birthday",
      vendors |-> <<[category |-> "venue", price |-> 9]>>],
     [budget |-> 200, type |-> "wedding",
      vendors |-> <<[category |-> "music", price |-> 7]>>],
     [budget |-> 200, type |-> "wedding",
      vendors |-> <<[category |-> "music", price |-> 6], [category |-> "music"]>>]}

InitRecommendations ==
    /\ \/ /\ totalBudget \in RecommendationBudgets
          /\ eventType \in EventTypes
          /\ selectedVendors = <<>>
       \/ \E f \in RecommendationFixtures :
            /\ totalBudget = f.budget
            /\ eventType = f.type
            /\ selectedVendors = f.vendors
    /\ currentAllocations = EmptyAllocation
    /\ InitCall
    /\ InitOthers

GetBudgetRecommendations ==
    /\ op' = "getBudgetRecommendations"
    /\ given' = EmptyAllocation
    /\ result' = getBudgetRecommendations(totalBudget, selectedVendors, eventType)
    /\ UNCHANGED <<totalBudget, eventType, selectedVendors, currentAllocations,
                   reallocations>>
    /\ UNCHANGED others

NextRecommendations ==
    \/ SelectVendor
    \/ GetBudgetRecommendations

SpecRecommendations == InitRecommendations /\ [][NextRecommendations]_vars

----------------------------------------------------------------------------
(* Recommendations from the user's priorities: the user sets priorities,   *)
(* selects priced vendors and asks for advice.                             *)

MaxPriority == 2

Priorities == 0..MaxPriority

\* priority maps over venue and catering, with the keys in either order
PriorityMaps ==
    {<<>>}
        \cup {<<[category |-> "venue", priority |-> p]>> : p \in Priorities}
        \cup {<<[category |-> "venue", priority |-> p],
                [category |-> "catering", priority |-> q]>> :
                    p \in Priorities, q \in Priorities}
        \cup {<<[category |-> "catering", priority |-> q],
                [category |-> "venue", priority |-> p]>> :
                    p \in Priorities, q \in Priorities}

\* vendors on offer to the recommender: each has a price
PricedVendors ==
    {vendor \in Vendors : HasPrice(vendor) /\ vendor.category # ""}

InitPriorities ==
    /\ totalBudget \in Budgets
    /\ categoryPriorities \in PriorityMaps
    /\ eventType = "unknown-type"
    /\ selectedVendors = <<>>
    /\ currentAllocations = EmptyAllocation
    /\ conversation = "INITIAL"
    /\ startedAt = "INITIAL"
    /\ steps = 0
    /\ InitCall
    /\ NoSearch

SelectPricedVendor ==
    /\ Len(selectedVendors) < MaxSelections
    /\ \E vendor \in PricedVendors : selectedVendors' = Append(selectedVendors, vendor)
    /\ op' = "select"
    /\ given' = EmptyAllocation
    /\ result' = NoResult
    /\ UNCHANGED <<totalBudget, eventType, currentAllocations, reallocations>>
    /\ UNCHANGED others

GenerateBudgetRecommendations ==
    /\ op' = "generateBudgetRecommendations"
    /\ given' = EmptyAllocation
    /\ result' = generateBudgetRecommendations(selectedVendors, categoryPriorities,
                                               totalBudget)
    /\ UNCHANGED <<totalBudget, eventType, selectedVendors, currentAllocations,
                   reallocations>>
    /\ UNCHANGED others

NextPriorities ==
    \/ SelectPricedVendor
    \/ GenerateBudgetRecommendations

SpecPriorities == InitPriorities /\ [][NextPriorities]_vars

----------------------------------------------------------------------------
(* The conversation flow.                                                  *)

Advanced == op = "getNextState"

\* the place of a state in the documented order of questions
Place(state) ==
    CASE state = "EVENT_TYPE" -> 1
      [] state = "SCOPE"      -> 2
      [] state = "BUDGET"     -> 3
      [] state = "LOCATION"   -> 4
      [] state = "DATE"       -> 5
      [] state = "STYLE"      -> 6
      [] state = "PLANNING"   -> 7
      [] OTHER                -> 0

\* C11: nextState returns PLANNING when the current state is PLANNING and
\* when it is not in the ordered sequence (INITIAL, or a value outside the
\* enumeration); every call returns a state of the flow.
C11_PlanningTerminal ==
    Advanced =>
        /\ result \in ConversationState
        /\ (given = "PLANNING" \/ Place(given) = 0) => result = "PLANNING"

C11_Witness ==
    /\ Advanced
    /\ given = "INITIAL"
    /\ result = "PLANNING"
    /\ steps = 1

C11_WitnessTerminal ==
    /\ Advanced
    /\ given = "PLANNING"
    /\ result = "PLANNING"
    /\ startedAt = "EVENT_TYPE"

\* C12: from every state of the ordered sequence but the last, nextState
\* returns the state that follows it: EVENT_TYPE->SCOPE, SCOPE->BUDGET,
\* BUDGET->LOCATION, LOCATION->DATE, DATE->STYLE, STYLE->PLANNING.
C12_Successor ==
    Advanced =>
        /\ given = "EVENT_TYPE" => result = "SCOPE"
        /\ given = "SCOPE"      => result = "BUDGET"
        /\ given = "BUDGET"     => result = "LOCATION"
        /\ given = "LOCATION"   => result = "DATE"
        /\ given = "DATE"       => result = "STYLE"
        /\ given = "STYLE"      => result = "PLANNING"
        /\ Place(given) \in 1..6 => Place(result) = Place(given) + 1

C12_Witness ==
    /\ Advanced
    /\ startedAt = "EVENT_TYPE"
    /\ steps = 6
    /\ given = "STYLE"
    /\ result = "PLANNING"

\* C13: starting at INITIAL, after nextState has been applied 7 times the
\* state is PLANNING, and every further application keeps it at PLANNING.
C13_SevenSteps ==
    (startedAt = "INITIAL" /\ steps >= 7) => conversation = "PLANNING"

C13_Witness ==
    /\ startedAt = "INITIAL"
    /\ steps = 8
    /\ Advanced
    /\ given = "PLANNING"
    /\ conversation = "PLANNING"

----------------------------------------------------------------------------
(* Template-driven recommendations.                                        *)

Recommended == op = "getBudgetRecommendations"

\* the places of the result that hold a recommendation of a kind
OfKind(kind) == {i \in 1..Len(result) : result[i].kind = kind}

\* the places that advise investing more in a category
InvestAdvice(c) == {i \in OfKind("invest") : result[i].category = c}

\* C14: with totalBudget > 0 exactly one budget-level message is emitted;
\* it is 'nearing budget limit' if (totalBudget - totalSpent) / totalBudget
\* < 0.1, that is 10 * (totalBudget - totalSpent) < totalBudget, and 'room
\* to splurge' otherwise.
C14_BudgetMessage ==
    (Recommended /\ totalBudget > 0) =>
        /\ Cardinality(OfKind("nearing") \cup OfKind("room")) = 1
        /\ OfKind("nearing") # {} <=> 10 * (totalBudget - TotalSpent) < totalBudget

\* a tenth of the budget is left exactly: room to splurge
C14_Witness ==
    /\ Recommended
    /\ totalBudget = 10
    /\ TotalSpent = 9
    /\ OfKind("room") # {}

C14_WitnessNearing ==
    /\ Recommended
    /\ totalBudget = 5
    /\ TotalSpent = 6
    /\ OfKind("nearing") # {}

\* C15: with totalBudget <= 0 the budget-level message is 'nearing budget
\* limit' and never 'room to splurge', whatever the selections and the
\* event type.
C15_GuardedBudget ==
    (Recommended /\ totalBudget <= 0) =>
        /\ OfKind("nearing") # {}
        /\ OfKind("room") = {}

\* what the function does with totalBudget <= 0: it returns, and advises
\* 'nearing' only when totalBudget = 0 and something was spent
C15_Unguarded ==
    (Recommended /\ totalBudget <= 0) =>
        /\ Cardinality(OfKind("nearing") \cup OfKind("room")) = 1
        /\ OfKind("nearing") # {} <=> (totalBudget = 0 /\ TotalSpent > 0)

C15_Witness ==
    /\ Recommended
    /\ totalBudget = 0
    /\ TotalSpent = 0
    /\ OfKind("room") # {}

\* the share of the budget the template gives a category, in hundredths
HundredthsOf(c) ==
    IF eventType \in DOMAIN templates /\ c \in DOMAIN templates[eventType]
    THEN templates[eventType][c]
    ELSE 0

AnyCategory ==
    UNION {DOMAIN templates[t] : t \in DOMAIN templates}
        \cup {selectedVendors[i].category : i \in 1..Len(selectedVendors)}

\* C16: an 'invest more' message for category c is emitted if and only if c
\* is a category of the event type's template, fraction(c) * totalBudget > 0
\* and the summed spend in c (missing price = 0) is less than 50% of
\* fraction(c) * totalBudget; at most one message per category, none for
\* categories outside the template or for an unknown event type.
C16_InvestMore ==
    Recommended =>
        /\ \A i \in OfKind("invest") : result[i].category \in AnyCategory
        /\ \A c \in AnyCategory :
              /\ Cardinality(InvestAdvice(c)) <= 1
              /\ InvestAdvice(c) # {} <=>
                    /\ HundredthsOf(c) * totalBudget > 0
                    /\ 200 * PriceSum(PricedIn(c)) < HundredthsOf(c) * totalBudget

\* the same away from the boundary: the message is emitted when the spend
\* is below half the share and not when it is above
C16_InvestMoreOffBoundary ==
    Recommended =>
        /\ \A i \in OfKind("invest") : result[i].category \in AnyCategory
        /\ \A c \in AnyCategory :
              /\ Cardinality(InvestAdvice(c)) <= 1
              /\ InvestAdvice(c) # {} => HundredthsOf(c) * totalBudget > 0
              /\ (HundredthsOf(c) * totalBudget > 0
                    /\ 200 * PriceSum(PricedIn(c)) < HundredthsOf(c) * totalBudget)
                    => InvestAdvice(c) # {}
              /\ 200 * PriceSum(PricedIn(c)) > HundredthsOf(c) * totalBudget
                    => InvestAdvice(c) = {}

\* half of music's share of a 200 wedding spent exactly, and advice given
C16_Witness ==
    /\ Recommended
    /\ eventType = "wedding"
    /\ totalBudget = 200
    /\ PriceSum(PricedIn("music")) = 7
    /\ InvestAdvice("music") # {}

----------------------------------------------------------------------------
(* Priority-driven recommender.                                            *)

Generated == op = "generateBudgetRecommendations"

\* the places of the result that hold a suggestion of a kind for a category
Suggests(kind, c) ==
    {i \in 1..Len(result) : result[i].kind = kind /\ result[i].category = c}

PriorityKeys == {categoryPriorities[i].category : i \in 1..Len(categoryPriorities)}

Weight(c) ==
    LET entries == {i \in 1..Len(categoryPriorities) : categoryPriorities[i].category = c}
    IN  IF entries = {} THEN 0 ELSE categoryPriorities[CHOOSE i \in entries : TRUE].priority

RECURSIVE WeightSum(_)
WeightSum(categories) ==
    IF categories = {} THEN 0
    ELSE LET c == CHOOSE x \in categories : TRUE
         IN  Weight(c) + WeightSum(categories \ {c})

AllWeights == WeightSum(PriorityKeys)

SpendIn(c) == PriceSum(SelectionsIn(c))

MoneyLeft == totalBudget - PriceSum(1..Len(selectedVendors))

\* C17: the 'increase spend' suggestion for category c is emitted if and
\* only if money remains and the spend in c is below 50% of
\* priority(c) / sum(all priorities) * totalBudget.
C17_IncreaseSpend ==
    Generated =>
        \A c \in PriorityKeys :
            Suggests("enhance", c) # {} <=>
                /\ MoneyLeft > 0
                /\ AllWeights > 0
                /\ 2 * SpendIn(c) * AllWeights < Weight(c) * totalBudget

\* what the function compares the spend with: 50% of priority * totalBudget
C17_Unnormalised ==
    Generated =>
        \A c \in PriorityKeys :
            Suggests("enhance", c) # {} <=>
                /\ MoneyLeft > 0
                /\ Weight(c) > 0
                /\ 2 * SpendIn(c) < Weight(c) * totalBudget

\* venue and catering weigh 2 each, 3 of 4 is spent on venue: more than
\* venue's whole expected 2, and yet the suggestion is made
C17_Witness ==
    /\ Generated
    /\ totalBudget = 4
    /\ Weight("venue") = 2
    /\ AllWeights = 4
    /\ SpendIn("venue") = 3
    /\ MoneyLeft = 1
    /\ Suggests("enhance", "venue") # {}

\* C18: with priorities of positive sum the 'trim' suggestion for category
\* c is emitted if and only if the spend in c is strictly greater than 120%
\* of priority(c) / sum(all priorities) * totalBudget, whether or not money
\* remains.
C18_Trim ==
    (Generated /\ AllWeights > 0) =>
        \A c \in PriorityKeys :
            Suggests("trim", c) # {} <=>
                5 * SpendIn(c) * AllWeights > 6 * Weight(c) * totalBudget

\* the same away from the boundary
C18_TrimOffBoundary ==
    (Generated /\ AllWeights > 0) =>
        \A c \in PriorityKeys :
            /\ 5 * SpendIn(c) * AllWeights > 6 * Weight(c) * totalBudget
                  => Suggests("trim", c) # {}
            /\ 5 * SpendIn(c) * AllWeights < 6 * Weight(c) * totalBudget
                  => Suggests("trim", c) = {}

\* venue weighs 1 of 3, the budget is 5 and 2 is spent on venue: exactly
\* 120% of 5/3, and yet the suggestion is made
C18_Witness ==
    /\ Generated
    /\ totalBudget = 5
    /\ Weight("venue") = 1
    /\ AllWeights = 3
    /\ SpendIn("venue") = 2
    /\ Suggests("trim", "venue") # {}

\* the places of the per-category suggestions
PerCategory == {i \in 1..Len(result) : result[i].kind \in {"enhance", "trim"}}

\* C19: with a non-empty priority map the per-category suggestions appear
\* in order of descending priority, and the last element of the list is a
\* closing suggestion that names a category of maximal priority when money
\* remains and a category of minimal priority when it does not.
C19_OrderAndClosing ==
    (Generated /\ categoryPriorities # <<>>) =>
        /\ \A i, j \in PerCategory :
              i < j => Weight(result[i].category) >= Weight(result[j].category)
        /\ Len(result) > 0
        /\ LET last == result[Len(result)]
           IN  /\ last.kind = IF MoneyLeft > 0 THEN "splurge" ELSE "economize"
               /\ last.category \in PriorityKeys
               /\ MoneyLeft > 0 =>
                     \A c \in PriorityKeys : Weight(c) <= Weight(last.category)
               /\ MoneyLeft <= 0 =>
                     \A c \in PriorityKeys : Weight(c) >= Weight(last.category)

\* catering, inserted second, weighs more: it is advised first and named
\* by the closing suggestion
C19_Witness ==
    /\ Generated
    /\ Len(categoryPriorities) = 2
    /\ categoryPriorities[1].category = "venue"
    /\ Weight("venue") = 1
    /\ Weight("catering") = 2
    /\ MoneyLeft > 0
    /\ Len(result) = 4
    /\ result[2] = [kind |-> "enhance", category |-> "catering"]
    /\ result[3].category = "venue"
    /\ result[4] = [kind |-> "splurge", category |-> "catering"]

C19_WitnessTight ==
    /\ Generated
    /\ Weight("venue") = 2
    /\ Weight("catering") = 1
    /\ MoneyLeft < 0
    /\ result[Len(result)] = [kind |-> "economize", category |-> "catering"]

\* C20: when the priority weights sum to 0 (an empty map included) the call
\* returns a defined list and every category's expected share is treated
\* as 0: the trim decision for a category is made against an expected
\* amount of 0, so the suggestion is made exactly when something was spent
\* in the category.
C20_ZeroWeights ==
    (Generated /\ AllWeights = 0) =>
        /\ Len(result) > 0
        /\ \A c \in PriorityKeys : Suggests("trim", c) # {} <=> SpendIn(c) > 0

\* what the function does: the expected share is 0 / 0, no trim suggestion
\* is ever made, and the list ends with a closing suggestion
C20_NoTrim ==
    (Generated /\ AllWeights = 0) =>
        /\ Len(result) > 0
        /\ result[Len(result)].kind \in {"splurge", "economize"}
        /\ \A c \in PriorityKeys : Suggests("trim", c) = {}

C20_Witness ==
    /\ Generated
    /\ categoryPriorities # <<>>
    /\ AllWeights = 0
    /\ SpendIn("venue") = 3
    /\ Suggests("trim", "venue") = {}


----------------------------------------------------------------------------
(* The whole budget engine on degenerate inputs: no budget, an event type  *)
(* without a template, nothing allocated, vendors without a price or of a  *)
(* category nothing holds.                                                 *)

InitContract ==
    /\ totalBudget \in {0, MaxBudget}
    /\ eventType \in {"birthday", "unknown-type"}
    /\ currentAllocations = EmptyAllocation
    /\ selectedVendors = <<>>
    /\ InitCall
    /\ InitOthers

NextContract ==
    \/ SelectVendor
    \/ AllocateBudget
    \/ SpentAmount
    \/ ReallocateBudget
    \/ GetOverageWarnings
    \/ GetBudgetRecommendations

SpecContract == InitContract /\ [][NextContract]_vars

\* an allocation: whole amounts under category names
IsAllocation(value) ==
    /\ DOMAIN value \subseteq STRING
    /\ \A c \in DOMAIN value : value[c] \in Int

\* the selections are degenerate: none, or one without a price, or one of
\* a category the allocation does not hold
Degenerate ==
    \/ selectedVendors = <<>>
    \/ \E i \in 1..Len(selectedVendors) :
          \/ ~HasPrice(selectedVendors[i])
          \/ selectedVendors[i].category \notin DOMAIN given

\* C21: allocateBudget, spentAmount, reallocateBudget, getOverageWarnings and
\* getBudgetRecommendations each return a defined result of their type and
\* no error, also for an unknown event type, absent categories, selections
\* without a price, no selections and a total budget of zero.
C21_TotalFunctions ==
    /\ op = "allocateBudget" =>
          /\ IsAllocation(result)
          /\ DOMAIN result = DOMAIN TemplateOf(eventType)
    /\ op = "spentAmount" => result \in Nat
    /\ op = "reallocateBudget" =>
          /\ IsAllocation(result)
          /\ DOMAIN given \subseteq DOMAIN result
    /\ op = "getOverageWarnings" =>
          \A i \in 1..Len(result) :
              /\ DOMAIN result[i] = {"category", "overBy"}
              /\ result[i].category \in SpendKeys
              /\ result[i].overBy.whole \in Nat \ {0}
    /\ op = "getBudgetRecommendations" =>
          /\ Len(result) >= 1
          /\ result[Len(result)] \in {NearingLimit, RoomToSplurge}
          /\ \A i \in 1..(Len(result) - 1) :
                /\ result[i].kind = "invest"
                /\ result[i].category \in DOMAIN TemplateOf(eventType)

\* advice is asked with no budget, no template and a vendor without a price
C21_Witness ==
    /\ op = "getBudgetRecommendations"
    /\ totalBudget = 0
    /\ eventType = "unknown-type"
    /\ \E i \in 1..Len(selectedVendors) : ~HasPrice(selectedVendors[i])
    /\ Len(result) = 1

\* nothing allocated, no budget, and a vendor of a category nothing holds
C21_WitnessReallocate ==
    /\ op = "reallocateBudget"
    /\ totalBudget = 0
    /\ given = EmptyAllocation
    /\ Degenerate
    /\ \E c \in DOMAIN result : result[c] < 0

----------------------------------------------------------------------------
(* Vendor search.  searchVendors validates its arguments, answers from an  *)
(* in-memory cache while the entry is younger than CACHE_TTL_MS, and       *)
(* otherwise asks the places API; the call is suspended while the request  *)
(* is under way, so other calls may start before the answer is cached.     *)

CACHE_TTL_MS == 60 * 60 * 1000

DefaultRadius == 50000

Top == 10

MaxCalls == 3

\* Mapping between our internal categories and Google Places types/keywords
categoryMappings ==
    [wedding_venue |-> <<"wedding_venue", "event_venue">>,
     photographer  |-> <<"photographer", "photography">>,
     catering      |-> <<"catering", "restaurant">>,
     florist       |-> <<"florist", "flower_shop">>,
     dj            |-> <<"dj_service", "entertainment">>]

\* the names every object literal inherits from Object.prototype: looked up
\* on categoryMappings they give a function or an object, not undefined
ObjectPrototype ==
    {"constructor", "toString", "toLocaleString", "valueOf", "hasOwnProperty",
     "isPrototypeOf", "propertyIsEnumerable", "__proto__"}

\* categoryMappings[category] is truthy
Mapped(category) == category \in DOMAIN categoryMappings \cup ObjectPrototype

\* types && types.length > 0 ? types[0] : undefined; an inherited function
\* or object has no element 0
mapToGoogleType(category) ==
    IF category \in DOMAIN categoryMappings /\ Len(categoryMappings[category]) > 0
    THEN categoryMappings[category][1]
    ELSE Undefined

\* a coordinate as a caller may pass it: a number, NaN, or nothing
Number(n) == [typeof |-> "number", nan |-> FALSE, value |-> n]

NotANumber == [typeof |-> "number", nan |-> TRUE, value |-> 0]

Missing == [typeof |-> "undefined", nan |-> FALSE, value |-> 0]

\* the location passes the validation
ValidLocation(location) ==
    ~ \/ location.lat.typeof # "number"
      \/ location.lng.typeof # "number"
      \/ location.lat.nan
      \/ location.lng.nan

Digit == <<"0", "1", "2", "3", "4", "5", "6", "7", "8", "9">>

RECURSIVE DigitsOf(_)
DigitsOf(n) ==
    IF n < 10 THEN <<Digit[n + 1]>>
    ELSE Append(DigitsOf(n \div 10), Digit[(n % 10) + 1])

\* `${n}` for a whole number
NumberToString(n) == IF n < 0 THEN <<"-">> \o DigitsOf(-n) ELSE DigitsOf(n)

\* `${category}:${location.lat},${location.lng}:${radius}`, as its pieces
buildCacheKey(category, location, radius) ==
    <<category, ":">> \o NumberToString(location.lat.value) \o <<",">>
        \o NumberToString(location.lng.value) \o <<":">> \o NumberToString(radius)

\* (rating ?? 0) * (user_ratings_total ?? 0)
Score(place) ==
    (IF "rating" \in DOMAIN place THEN place.rating ELSE 0)
        * (IF "user_ratings_total" \in DOMAIN place THEN place.user_ratings_total ELSE 0)

\* results.sort((a, b) => scoreB - scoreA): by falling score, equal scores
\* keeping their order
RECURSIVE Ranked(_)
Ranked(results) ==
    IF results = <<>> THEN <<>>
    ELSE LET before == Ranked(SubSeq(results, 1, Len(results) - 1))
             place  == results[Len(results)]
             ahead  == Cardinality({i \in 1..Len(before) : Score(before[i]) >= Score(place)})
         IN  SubSeq(before, 1, ahead) \o <<place>> \o SubSeq(before, ahead + 1, Len(before))

\* results.slice(0, 10)
Slice(results) ==
    SubSeq(results, 1, IF Len(results) < Top THEN Len(results) ELSE Top)

\* what placesNearby may answer: an error, data without results, and more
\* places than are kept, the best of them last and one without a rating
Failure == [ok |-> FALSE]

Responses ==
    {Failure,
     [ok |-> TRUE],
     [ok |-> TRUE, results |-> [i \in 1..(Top + 1) |->
                                   IF i = 1 THEN [placeId |-> i, user_ratings_total |-> 50]
                                   ELSE [placeId |-> i, rating |-> 3,
                                         user_ratings_total |-> i]]]}

\* resp.data.results ?? []
ResultsOf(response) ==
    IF "results" \in DOMAIN response THEN response.results ELSE <<>>

Here == [lat |-> Number(40), lng |-> Number(-74)]

\* the calls made: a supported category with and without a radius, a
\* location without numbers, the Testing Guide's "venue", which has no
\* mapping, and a name the mapping object inherits
Searches ==
    {[category |-> "catering", location |-> Here],
     [category |-> "catering", location |-> Here, radius |-> DefaultRadius],
     [category |-> "catering", location |-> Here, radius |-> 1000],
     [category |-> "catering", location |-> [lat |-> NotANumber, lng |-> Missing]],
     [category |-> "venue", location |-> Here],
     [category |-> "constructor", location |-> Here]}

\* the moments told apart: the start, and just before and at the time to live
Instants == {0, CACHE_TTL_MS - 1, CACHE_TTL_MS}

\* cached && Date.now() - cached.timestamp < CACHE_TTL_MS
Fresh(key) ==
    /\ key \in DOMAIN cache
    /\ clock - cache[key].timestamp < CACHE_TTL_MS

\* what the vendor search leaves alone
planning == <<totalBudget, eventType, selectedVendors, currentAllocations,
              op, given, result, reallocations,
              conversation, startedAt, steps, categoryPriorities>>

InitPlaces ==
    /\ cache = EmptyCache
    /\ clock = 0
    /\ pending = <<>>
    /\ fetches = {}
    /\ search = [step |-> "none"]
    /\ apiKey \in BOOLEAN
    /\ calls = 0
    /\ NoBudget
    /\ conversation = "INITIAL"
    /\ startedAt = "INITIAL"
    /\ steps = 0

\* searchVendors(category, location, radius) up to its return or to the
\* request it awaits
SearchVendors ==
    /\ calls < MaxCalls
    /\ \E args \in Searches :
         LET category == args.category
             location == args.location
             radius   == IF "radius" \in DOMAIN args THEN args.radius ELSE DefaultRadius
             key      == buildCacheKey(category, location, radius)
             outcome  == IF ~Mapped(category) THEN "unknown category"
                         ELSE IF ~ValidLocation(location) THEN "invalid location"
                         ELSE IF Fresh(key) THEN "cached"
                         ELSE IF ~apiKey THEN "error"
                         ELSE "requested"
         IN  /\ search' = [step      |-> "call",
                           category  |-> category,
                           location  |-> location,
                           radius    |-> radius,
                           at        |-> clock,
                           known     |-> {f \in fetches : /\ f.category = category
                                                           /\ f.location = location
                                                           /\ f.radius = radius},
                           requested |-> outcome = "requested",
                           settled   |-> outcome # "requested",
                           returned  |-> IF outcome = "cached" THEN cache[key].data
                                         ELSE <<>>]
             /\ pending' = IF outcome = "requested"
                           THEN Append(pending,
                                       [category |-> category, location |-> location,
                                        radius |-> radius, key |-> key,
                                        type |-> mapToGoogleType(category)])
                           ELSE pending
    /\ calls' = calls + 1
    /\ UNCHANGED <<cache, clock, fetches, apiKey>>
    /\ UNCHANGED planning

\* placesNearby answers a suspended call, which ranks, cuts and caches the
\* results, or catches the error
PlacesNearby ==
    /\ \E i \in 1..Len(pending), response \in Responses :
         LET call == pending[i]
             top  == Slice(Ranked(ResultsOf(response)))
         IN  /\ pending' = SubSeq(pending, 1, i - 1) \o SubSeq(pending, i + 1, Len(pending))
             /\ cache' = IF response.ok
                         THEN [key \in DOMAIN cache \cup {call.key} |->
                                  IF key = call.key
                                  THEN [data |-> top, timestamp |-> clock]
                                  ELSE cache[key]]
                         ELSE cache
             /\ fetches' = IF response.ok
                           THEN fetches \cup {[category |-> call.category,
                                               location |-> call.location,
                                               radius |-> call.radius,
                                               data |-> top, at |-> clock]}
                           ELSE fetches
             /\ search' = [step      |-> "answer",
                           category  |-> call.category,
                           location  |-> call.location,
                           radius    |-> call.radius,
                           at        |-> clock,
                           known     |-> {},
                           requested |-> TRUE,
                           settled   |-> TRUE,
                           returned  |-> IF response.ok THEN top ELSE <<>>]
    /\ UNCHANGED <<clock, apiKey, calls>>
    /\ UNCHANGED planning

\* time passes
Tick ==
    /\ \E t \in Instants : t > clock /\ clock' = t
    /\ UNCHANGED <<cache, pending, fetches, search, apiKey, calls>>
    /\ UNCHANGED planning

NextPlaces ==
    \/ SearchVendors
    \/ PlacesNearby
    \/ Tick

SpecPlaces == InitPlaces /\ [][NextPlaces]_vars

\* the last step was a call of searchVendors, up to its return or request
Called == search.step = "call"

NumberGiven(x) == x.typeof = "number" /\ ~x.nan

\* the arguments the documentation calls invalid
UnknownCategory(category) == category \notin DOMAIN categoryMappings

InvalidLocation(location) == ~NumberGiven(location.lat) \/ ~NumberGiven(location.lng)

\* the fetches for the call's arguments made less than the time to live ago
Recent == {f \in search.known : search.at - f.at < CACHE_TTL_MS}

\* C22 as stated: once results were fetched for a category, location and
\* radius, every later call with the same three that starts less than
\* CACHE_TTL_MS after the fetch returns those results and asks the places
\* API nothing; a call with an unknown category or an invalid location
\* returns the empty list, asks nothing and leaves the cache alone.
C22_Cache ==
    /\ Called =>
          /\ \A f \in Recent :
                /\ ~search.requested
                /\ search.settled
                /\ search.returned = f.data
          /\ (UnknownCategory(search.category) \/ InvalidLocation(search.location)) =>
                /\ ~search.requested
                /\ search.settled
                /\ search.returned = <<>>
    /\ \A f \in fetches : ~UnknownCategory(f.category) /\ ~InvalidLocation(f.location)

\* C22, what holds: a call that finds results of its arguments fetched less
\* than CACHE_TTL_MS ago asks nothing and returns the results of one of the
\* latest of these fetches; a call whose category the mapping neither holds
\* nor inherits, or whose location is invalid, returns the empty list, asks
\* nothing, and nothing is ever cached for it.
C22_CacheLatest ==
    /\ Called =>
          /\ Recent # {} =>
                /\ ~search.requested
                /\ search.settled
                /\ \E f \in Recent :
                      /\ search.returned = f.data
                      /\ \A g \in Recent : g.at <= f.at
          /\ (search.category \notin DOMAIN categoryMappings \cup ObjectPrototype
                \/ InvalidLocation(search.location)) =>
                /\ ~search.requested
                /\ search.settled
                /\ search.returned = <<>>
    /\ \A f \in fetches :
          /\ f.category \in DOMAIN categoryMappings \cup ObjectPrototype
          /\ ~InvalidLocation(f.location)

\* a category that is none of the supported ones is sent to the places API
C22_Witness ==
    /\ Called
    /\ UnknownCategory(search.category)
    /\ search.requested

\* two requests for the same arguments were under way together, and a call
\* within the hour of the first answer returns the second
C22_WitnessOverlap ==
    /\ Called
    /\ ~search.requested
    /\ \E f \in Recent : search.returned # f.data

\* a call just before the hour is over is answered from the cache, with the
\* best places first and no more than ten
C22_WitnessCached ==
    /\ Called
    /\ ~search.requested
    /\ search.at = CACHE_TTL_MS - 1
    /\ \E f \in Recent : f.at = 0 /\ search.returned = f.data
    /\ Len(search.returned) = Top
    /\ search.returned[1].placeId = Top + 1

\* a call an hour after the fetch asks the places API again
C22_WitnessExpired ==
    /\ Called
    /\ search.requested
    /\ search.known # {}
    /\ Recent = {}

----------------------------------------------------------------------------
(* The caller selects vendors and reallocates, passing each result back as *)
(* the current allocation; it holds one category or two.                   *)

InitReapply ==
    /\ totalBudget \in Budgets
    /\ eventType = "unknown-type"
    /\ currentAllocations \in
          InitialAllocations \cup {[venue |-> a] : a \in 1..MaxAllocation}
    /\ selectedVendors = <<>>
    /\ InitCall
    /\ InitOthers

NextReapply ==
    \/ SelectVendor
    \/ ReallocateBudget

SpecReapply == InitReapply /\ [][NextReapply]_vars

\* a reallocation follows a reallocation: the first result is passed back
\* with the same selections and total budget
Reapplied ==
    /\ op = "reallocateBudget"
    /\ op' = "reallocateBudget"
    /\ reallocations' = reallocations + 1

\* the categories with a priced selection of a price above 0
Charged ==
    {c \in CategoryNames : \E i \in PricedIn(c) : selectedVendors[i].price > 0}

\* C23 as stated: when the result of reallocateBudget is passed back with
\* the same selections, where some selection has a price p > 0 in a
\* category, the second result differs from the first.
C23_NotIdempotent ==
    [][(Reapplied /\ Charged # {}) => (given' = result /\ result' # result)]_vars

\* C23 amended: the second call starts from the first result and subtracts
\* the prices again; a charged category that is then <= 0, or is not
\* redistributed, ends at the first result minus its spend, so the results
\* differ; a charged category that is redistributed ends at its share of
\* the available budget, which may be what it was.
C23_Resubtracted ==
    [][Reapplied =>
          /\ given' = result
          /\ \A c \in Charged :
                LET again == Get(result, c) - PriceSum(PricedIn(c))
                IN  IF again <= 0 \/ ~Redistributes'
                    THEN Get(result', c) = again /\ result' # result
                    ELSE Nearest(Get(result', c), again * Available, RemainingTotal')]_vars

\* the allocation passed is the result for these selections, a venue vendor
\* at 1 among them, and it comes back as it was
C23_Witness ==
    /\ Reallocated
    /\ reallocations = 2
    /\ result = given
    /\ \E i \in PricedIn("venue") : selectedVendors[i].price > 0
    /\ \E first \in {[venue |-> a] : a \in 1..MaxAllocation} :
          given = reallocateBudget(first, selectedVendors, totalBudget)

\* the usual case: the second result has lost the spend once more
C23_WitnessDiffers ==
    /\ Reallocated
    /\ reallocations = 2
    /\ Charged # {}
    /\ ~Redistributes
    /\ \E c \in Charged : Get(result, c) < Get(given, c) /\ Get(given, c) < 0

----------------------------------------------------------------------------
(* Prices with cents.  Here every amount is counted in half dollars, so a  *)
(* price of 1 is $0.50 and an allocation of whole dollars is even; sums    *)
(* and differences of such amounts are exact in double arithmetic, and     *)
(* Math.round gives whole dollars.                                         *)

\* x / 2
Halved(x) == IF x.m = <<>> THEN x ELSE [x EXCEPT !.e = @ - 1]

\* Math.round(newAllocations[category] / remainingBudget * (totalBudget - spent))
PortionOfHalves(amount, remainingBudget, available) ==
    2 * MathRound(Halved(DoubleMul(DoubleDiv(amount, remainingBudget), available)))

\* mutant: the whole budget is distributed, not what is left of it
reallocateHalvesOfTotal(allocations, vendors, budget) ==
    LET newAllocations      == SubtractSpent(allocations, vendors)
        remainingCategories == RemainingCategories(newAllocations)
        remainingBudget     == SumOver(newAllocations, remainingCategories)
        spent               == spentAmount(vendors)
    IN  IF remainingBudget > 0 /\ (budget - spent) > 0
        THEN [c \in DOMAIN newAllocations |->
                 IF c \in remainingCategories
                 THEN PortionOfHalves(newAllocations[c], remainingBudget, budget)
                 ELSE newAllocations[c]]
        ELSE newAllocations

\* reallocateBudget on amounts in half dollars
reallocateHalves(allocations, vendors, budget) ==
    LET newAllocations      == SubtractSpent(allocations, vendors)
        remainingCategories == RemainingCategories(newAllocations)
        remainingBudget     == SumOver(newAllocations, remainingCategories)
        spent               == spentAmount(vendors)
    IN  IF remainingBudget > 0 /\ (budget - spent) > 0
        THEN [c \in DOMAIN newAllocations |->
                 IF c \in remainingCategories
                 THEN PortionOfHalves(newAllocations[c], remainingBudget, budget - spent)
                 ELSE newAllocations[c]]
        ELSE newAllocations

\* vendors at $0.50, $1.00 and $1.50, and one without a price
HalfDollarVendors ==
    {[category |-> "venue", price |-> 1],
     [category |-> "venue", price |-> 2],
     [category |-> "catering", price |-> 3],
     [category |-> "catering"]}

\* whole-dollar allocations that sum to the total budget or fall short of
\* it, and the documentation's example: {a: 100, b: 100}, a at 50, 200
InitHalfDollars ==
    /\ \/ /\ \E a \in 1..MaxAllocation, b \in 1..MaxAllocation, more \in {0, 2} :
                /\ currentAllocations = [venue |-> 2 * a, catering |-> 2 * b]
                /\ totalBudget = 2 * (a + b) + more
          /\ selectedVendors = <<>>
       \/ /\ currentAllocations = [a |-> 200, b |-> 200]
          /\ totalBudget = 400
          /\ selectedVendors = <<[category |-> "a", price |-> 100]>>
    /\ eventType = "unknown-type"
    /\ InitCall
    /\ InitOthers

SelectHalfDollarVendor ==
    /\ Len(selectedVendors) < MaxSelections
    /\ \E vendor \in HalfDollarVendors : selectedVendors' = Append(selectedVendors, vendor)
    /\ op' = "select"
    /\ given' = EmptyAllocation
    /\ result' = NoResult
    /\ UNCHANGED <<totalBudget, eventType, currentAllocations, reallocations>>
    /\ UNCHANGED others

\* the caller reallocates from the allocation it holds
ReallocateHalves ==
    /\ op' = "reallocateBudget"
    /\ given' = currentAllocations
    /\ result' = reallocateHalves(currentAllocations, selectedVendors, totalBudget)
    /\ UNCHANGED <<totalBudget, eventType, selectedVendors, currentAllocations,
                   reallocations>>
    /\ UNCHANGED others

NextHalfDollars ==
    \/ SelectHalfDollarVendor
    \/ ReallocateHalves

SpecHalfDollars == InitHalfDollars /\ [][NextHalfDollars]_vars

\* the allocation passed sums to the total budget, every priced selection
\* has a category, and every category's spend is below its amount
WithinEveryCategory ==
    /\ Total(given) = totalBudget
    /\ \A i \in Priced : selectedVendors[i].category # ""
    /\ \A c \in CategoryNames : PriceSum(PricedIn(c)) < Get(given, c)

\* amounts of whole dollars, counted in half dollars
WholeDollars(amount) == amount % 2 = 0

\* C24 as stated: if the allocation's amounts are whole, sum to the total
\* budget, every priced selection has a category and every category's spend
\* is below its amount, reallocateBudget returns for each category exactly
\* its amount minus its spend.
C24_NoMoneyMoved ==
    (Reallocated /\ WithinEveryCategory /\ \A c \in DOMAIN given : WholeDollars(given[c])) =>
        /\ DOMAIN result = DOMAIN given
        /\ \A c \in DOMAIN given : result[c] = given[c] - PriceSum(PricedIn(c))

\* C24 amended: the same, if moreover every price is whole.
C24_NoMoneyMovedWhole ==
    (/\ Reallocated /\ WithinEveryCategory
     /\ \A c \in DOMAIN given : WholeDollars(given[c])
     /\ \A i \in Priced : WholeDollars(selectedVendors[i].price)) =>
        /\ DOMAIN result = DOMAIN given
        /\ \A c \in DOMAIN given : result[c] = given[c] - PriceSum(PricedIn(c))

\* the documentation's example: a = 50 and b = 100 come back
C24_Witness ==
    /\ Reallocated /\ WithinEveryCategory
    /\ given = [a |-> 200, b |-> 200]
    /\ selectedVendors = <<[category |-> "a", price |-> 100]>>
    /\ result = [a |-> 100, b |-> 200]

\* a price of $0.50: the category comes back as a whole amount
C24_WitnessCents ==
    /\ Reallocated /\ WithinEveryCategory
    /\ \E c \in DOMAIN given :
          /\ ~WholeDollars(PriceSum(PricedIn(c)))
          /\ WholeDollars(result[c])
          /\ result[c] # given[c] - PriceSum(PricedIn(c))

----------------------------------------------------------------------------
(* Spend as the three functions that aggregate it see it.                  *)

\* what the subtraction step of reallocateBudget takes off the allocation
SubtractedTotal == Total(given) - Total(SubtractSpent(given, selectedVendors))

\* the sum of getOverageWarnings' spentPerCategory
RECURSIVE SpentOver(_)
SpentOver(keys) ==
    IF keys = {} THEN 0
    ELSE LET c == CHOOSE k \in keys : TRUE
         IN  SpentPerCategory(selectedVendors, c) + SpentOver(keys \ {c})

\* C25 as stated: for every selection list, what reallocateBudget subtracts
\* from the allocation, and the sum of the per-category spend of
\* getOverageWarnings, both equal spentAmount(selections), from which
\* reallocateBudget computes the available budget.
C25_SpendConsistent ==
    /\ Reallocated => SubtractedTotal = spentAmount(selectedVendors)
    /\ Warned => SpentOver(SpendKeys) = spentAmount(selectedVendors)

\* C25, what holds: the per-category spend of getOverageWarnings sums to
\* spentAmount; reallocateBudget subtracts spentAmount less the prices of the
\* selections whose category is the empty string.
C25_SpendButUnnamed ==
    /\ Reallocated =>
          SubtractedTotal = spentAmount(selectedVendors) - PriceSum(PricedIn(""))
    /\ Warned => SpentOver(SpendKeys) = spentAmount(selectedVendors)

\* a priced selection without a category name: it counts as spent, and no
\* category is charged for it
C25_Witness ==
    /\ Reallocated
    /\ PricedIn("") # {}
    /\ SubtractedTotal < spentAmount(selectedVendors)
    /\ spentAmount(selectedVendors) = TotalSpent

----------------------------------------------------------------------------
(* The dialog as a run: where it stands after each application.            *)

\* C26 as stated: started at INITIAL and driven by nextState alone, the
\* dialog visits EVENT_TYPE, SCOPE, BUDGET, LOCATION, DATE, STYLE and then
\* PLANNING, one state per application and none skipped, and then stays in
\* PLANNING.
C26_LinearFromInitial ==
    startedAt = "INITIAL" =>
        /\ steps = 0 => conversation = "INITIAL"
        /\ steps \in 1..7 => Place(conversation) = steps
        /\ steps >= 7 => conversation = "PLANNING"

\* C26, what holds: started at INITIAL the dialog is in PLANNING after the
\* first application and stays there; it is a dialog started at EVENT_TYPE
\* that visits the states in order, one per application.
C26_LinearFromEventType ==
    /\ (startedAt = "INITIAL" /\ steps >= 1) => conversation = "PLANNING"
    /\ startedAt = "EVENT_TYPE" =>
          /\ steps \in 0..6 => Place(conversation) = steps + 1
          /\ steps >= 6 => conversation = "PLANNING"

\* two applications from INITIAL: no question was visited
C26_Witness ==
    /\ startedAt = "INITIAL"
    /\ steps = 2
    /\ Advanced
    /\ given = "PLANNING"
    /\ conversation = "PLANNING"

----------------------------------------------------------------------------
(* The lifecycle of the allocation: derived fresh, reallocated for the     *)
(* selections, and then looked at for overage.                             *)

\* the warnings are about the fresh allocation, reallocated once
ViewedThroughReallocation ==
    /\ Warned
    /\ eventType \in BuiltIn
    /\ given = reallocateBudget(allocateBudget(totalBudget, eventType),
                                selectedVendors, totalBudget)

\* the selections stay under the total budget and within every category's
\* fresh allocation
WithinFreshAllocation ==
    /\ TotalSpent < totalBudget
    /\ \A c \in SpendKeys :
          PriceSum(PricedIn(c)) <= Get(allocateBudget(totalBudget, eventType), c)

\* C27 as stated: for a built-in event type, if the total spend is below the
\* total budget and every category's spend is at most its fresh allocation,
\* the reallocated allocation gives no overage warning.
C27_NoOverage ==
    (ViewedThroughReallocation /\ WithinFreshAllocation) => result = <<>>

\* C27, what holds: no warning when nothing priced is selected; a category
\* whose spend is positive and at least half its fresh allocation, the
\* fresh allocation summing to the total budget, is warned about.
C27_OverageOfRemainder ==
    (ViewedThroughReallocation /\ WithinFreshAllocation) =>
        /\ TotalSpent = 0 => result = <<>>
        /\ Total(allocateBudget(totalBudget, eventType)) = totalBudget =>
              \A c \in SpendKeys \ {""} :
                  LET fresh == Get(allocateBudget(totalBudget, eventType), c)
                      spend == PriceSum(PricedIn(c))
                  IN  (spend > 0 /\ 2 * spend > fresh) => WarningsAbout(c) # {}

\* a venue within its fresh allocation is reported over budget
C27_Witness ==
    /\ ViewedThroughReallocation /\ WithinFreshAllocation
    /\ PriceSum(PricedIn("venue")) > 0
    /\ WarningsAbout("venue") # {}

----------------------------------------------------------------------------
(* What a redistribution hands out.                                        *)

RECURSIVE ResultOver(_)
ResultOver(categories) ==
    IF categories = {} THEN 0
    ELSE LET c == CHOOSE x \in categories : TRUE
         IN  result[c] + ResultOver(categories \ {c})

\* C28: whenever reallocateBudget redistributes (R > 0 and A > 0), the new
\* amounts of the k redistributed categories sum to A give or take k/2,
\* and none of them is negative.
C28_Conserved ==
    (Reallocated /\ Redistributes) =>
        /\ 2 * Abs(ResultOver(StillPositive) - Available) <= Cardinality(StillPositive)
        /\ \A c \in StillPositive : result[c] >= 0

\* two categories are redistributed after a purchase, and rounding leaves
\* their sum off the available budget
C28_Witness ==
    /\ Reallocated /\ Redistributes
    /\ Priced # {}
    /\ Cardinality(StillPositive) = 2
    /\ ResultOver(StillPositive) # Available

\* a redistributed category is left with nothing
C28_WitnessZero ==
    /\ Reallocated /\ Redistributes
    /\ \E c \in StillPositive : result[c] = 0

----------------------------------------------------------------------------
(* How far a fresh allocation is from the total budget.                    *)

\* C30: for the built-in templates and a total budget >= 0, every allocated
\* amount is >= 0 and the amounts sum to the total budget give or take 3
\* for wedding (6 categories) and 2 for birthday (5 categories).
C30_BoundedDrift ==
    (Allocated /\ eventType \in BuiltIn /\ totalBudget >= 0) =>
        /\ \A c \in DOMAIN result : result[c] >= 0
        /\ eventType = "wedding" => Abs(Total(result) - totalBudget) <= 3
        /\ eventType = "birthday" => Abs(Total(result) - totalBudget) <= 2

\* the wedding amounts of 22 sum to 24
C30_Witness ==
    /\ Allocated
    /\ eventType = "wedding"
    /\ totalBudget = 22
    /\ Total(result) = totalBudget + 2

\* a birthday budget whose amounts are off it by 1
C30_WitnessBirthday ==
    /\ Allocated
    /\ eventType = "birthday"
    /\ totalBudget > 0
    /\ Abs(Total(result) - totalBudget) = 1

----------------------------------------------------------------------------
(* The direction of the dialog.                                            *)

\* C29: nextState never moves backwards in the ordered sequence, and from
\* every one of the eight states PLANNING is reached after at most 6
\* applications and never left afterwards.
C29_ForwardAndTerminating ==
    /\ (Advanced /\ Place(given) >= 1) => Place(result) >= Place(given)
    /\ (startedAt \in ConversationState /\ steps >= 6) => conversation = "PLANNING"
    /\ (Advanced /\ given = "PLANNING") => conversation = "PLANNING"

\* the longest way: from EVENT_TYPE the sixth application reaches PLANNING
C29_Witness ==
    /\ startedAt = "EVENT_TYPE"
    /\ steps = 6
    /\ Advanced
    /\ Place(given) = 6
    /\ conversation = "PLANNING"

\* and the dialog is still in PLANNING afterwards
C29_WitnessStays ==
    /\ startedAt = "EVENT_TYPE"
    /\ steps = MaxSteps
    /\ Advanced
    /\ given = "PLANNING"
    /\ conversation = "PLANNING"

====
